---------------------------- MODULE Spec2Model ----------------------------
(***************************************************************************)
(* A model of the p2p-client package: the signed request exchange of       *)
(* Client.request over a libp2p stream, the canonical payload and          *)
(* Authorization header, and the length-prefixed frame codec               *)
(* (writeMessage / readMessage).                                           *)
(*                                                                         *)
(* Strings and byte slices are sequences of byte values 0..255.  A Go      *)
(* slice or map that may be nil is a record [nil, v].                      *)
(***************************************************************************)
EXTENDS Integers, Sequences, FiniteSets, TLC

(***************************************************************************)
(* Bounds of the model.                                                    *)
(***************************************************************************)
\* calls issued in one behaviour
MaxCalls == 2
\* goroutines that may run an exchange at the same time
MaxExchanges == 2
\* the largest value time.Now().Unix() takes
MaxClock == 1
\* the longest request body of the codec and signing specifications
MaxBodyLen == 2

(***************************************************************************)
(* Bytes and strings.                                                      *)
(***************************************************************************)
Range(s) == {s[i] : i \in DOMAIN s}

\* a begins b
IsPrefix(a, b) == Len(a) <= Len(b) /\ a = SubSeq(b, 1, Len(a))

\* s from its i-th element on
From(s, i) == SubSeq(s, i, Len(s))

\* strings.TrimPrefix
TrimPrefix(s, p) == IF IsPrefix(p, s) THEN From(s, Len(p) + 1) ELSE s

RECURSIVE Concat(_)
\* the concatenation of a sequence of sequences
Concat(ss) == IF ss = <<>> THEN <<>> ELSE Head(ss) \o Concat(Tail(ss))

RECURSIVE Join(_, _)
\* the elements of ss joined by the separator sep
Join(ss, sep) ==
    IF ss = <<>> THEN <<>>
    ELSE IF Len(ss) = 1 THEN ss[1]
    ELSE ss[1] \o sep \o Join(Tail(ss), sep)

\* "\n"
LF == 10

\* strings.ToUpper on one byte: ASCII a..z map to A..Z
UpperByte(c) == IF c >= 97 /\ c <= 122 THEN c - 32 ELSE c

\* strings.ToUpper
ToUpper(s) == [i \in DOMAIN s |-> UpperByte(s[i])]

\* one lowercase hexadecimal digit, as fmt's %x prints it
HexDigit(d) == IF d < 10 THEN 48 + d ELSE 87 + d

RECURSIVE HexFixed(_, _)
\* n in lowercase hexadecimal, exactly w digits
HexFixed(n, w) ==
    IF w = 0 THEN <<>> ELSE HexFixed(n \div 16, w - 1) \o <<HexDigit(n % 16)>>

RECURSIVE DecNat(_)
\* a natural number in decimal
DecNat(n) == IF n < 10 THEN <<48 + n>> ELSE DecNat(n \div 10) \o <<48 + (n % 10)>>

\* fmt's %d of an integer
Dec(n) == IF n < 0 THEN <<45>> \o DecNat(0 - n) ELSE DecNat(n)

\* a Go []byte: nil, or a slice with these bytes
NilBytes == [nil |-> TRUE, v |-> <<>>]
Bytes(b) == [nil |-> FALSE, v |-> b]

(***************************************************************************)
(* encoding/base64, StdEncoding (padded).                                  *)
(***************************************************************************)
\* the character of a 6-bit value
B64Char(i) ==
    IF i < 26 THEN 65 + i
    ELSE IF i < 52 THEN 71 + i
    ELSE IF i < 62 THEN i - 4
    ELSE IF i = 62 THEN 43 ELSE 47

\* the 6-bit value of a character, -1 for a character outside the alphabet
B64Val(c) ==
    IF c >= 65 /\ c <= 90 THEN c - 65
    ELSE IF c >= 97 /\ c <= 122 THEN c - 71
    ELSE IF c >= 48 /\ c <= 57 THEN c + 4
    ELSE IF c = 43 THEN 62
    ELSE IF c = 47 THEN 63 ELSE 0 - 1

RECURSIVE Base64Encode(_)
\* base64.StdEncoding.EncodeToString
Base64Encode(b) ==
    IF Len(b) = 0 THEN <<>>
    ELSE IF Len(b) = 1 THEN
        <<B64Char(b[1] \div 4), B64Char((b[1] % 4) * 16), 61, 61>>
    ELSE IF Len(b) = 2 THEN
        <<B64Char(b[1] \div 4), B64Char((b[1] % 4) * 16 + b[2] \div 16),
          B64Char((b[2] % 16) * 4), 61>>
    ELSE
        <<B64Char(b[1] \div 4), B64Char((b[1] % 4) * 16 + b[2] \div 16),
          B64Char((b[2] % 16) * 4 + b[3] \div 64), B64Char(b[3] % 64)>>
        \o Base64Encode(SubSeq(b, 4, Len(b)))

\* whether base64.StdEncoding.DecodeString accepts s (the encoding is not
\* strict: the unused bits of the last digit may be anything)
Base64Valid(s) ==
    /\ Len(s) % 4 = 0
    /\ \A i \in DOMAIN s :
          \/ B64Val(s[i]) >= 0
          \/ s[i] = 61 /\ i > Len(s) - 2 /\ (i = Len(s) \/ s[Len(s)] = 61)

RECURSIVE Base64Decode(_)
\* base64.StdEncoding.DecodeString of a well-formed string
Base64Decode(s) ==
    IF Len(s) = 0 THEN <<>>
    ELSE
        LET a == B64Val(s[1])
            b == B64Val(s[2])
            c == B64Val(s[3])
            d == B64Val(s[4])
        IN  IF s[3] = 61 THEN <<a * 4 + b \div 16>>
            ELSE IF s[4] = 61 THEN <<a * 4 + b \div 16, (b % 16) * 16 + c \div 4>>
            ELSE <<a * 4 + b \div 16, (b % 16) * 16 + c \div 4, (c % 4) * 64 + d>>
                 \o Base64Decode(SubSeq(s, 5, Len(s)))

(***************************************************************************)
(* Keys, identity, canonical payload and signature.                        *)
(*                                                                         *)
(* crypto/sha256 and crypto/ed25519 are idealised: the digest is a         *)
(* polynomial hash printed as 6 hex digits, with no collisions among       *)
(* bodies of up to two bytes; a signature is valid for exactly the key     *)
(* and message it was made from.                                           *)
(***************************************************************************)
RECURSIVE BodyCode(_)
\* the digest of the body's bytes as a number
BodyCode(b) ==
    IF b = <<>> THEN 0 ELSE ((b[1] + 1) + 257 * BodyCode(Tail(b))) % 4194304

\* fmt.Sprintf("%x", sha256.Sum256(body)): a nil body hashes as an empty one
Sha256Hex(body) == HexFixed(BodyCode(body.v), 6)

\* a payload with the timestamp before the nonce
buildPayload_NonceLast(method, path, body, nonce, ts) ==
    Join(<<ToUpper(method), path, Sha256Hex(body), Dec(ts), nonce>>, <<LF>>)

\* a payload that leaves the nonce out
buildPayload_NoNonce(method, path, body, nonce, ts) ==
    Join(<<ToUpper(method), path, Sha256Hex(body), Dec(ts)>>, <<LF>>)

\* buildPayload returns the canonical payload
buildPayload(method, path, body, nonce, ts) ==
    Join(<<ToUpper(method), path, Sha256Hex(body), nonce, Dec(ts)>>, <<LF>>)

\* privKey.Public(): the public key of a private key
Public(priv) == [i \in DOMAIN priv |-> 255 - priv[i]]

\* ed25519.Sign
Sign(priv, msg) == Public(priv) \o msg

\* ed25519.Verify
Verify(pub, msg, sig) == sig = pub \o msg

(***************************************************************************)
(* multibase.Encode(multibase.Base58BTC, data): "z" and the base58 digits  *)
(* of the bytes read as one big-endian number, a "1" per leading zero      *)
(* byte.  The division by 58 is done on the byte sequence.                 *)
(***************************************************************************)
\* the character of a base58 digit (the bitcoin alphabet)
B58Char(i) ==
    IF i < 9 THEN 49 + i
    ELSE IF i < 17 THEN 56 + i
    ELSE IF i < 22 THEN 57 + i
    ELSE IF i < 33 THEN 58 + i
    ELSE IF i < 44 THEN 64 + i
    ELSE 65 + i

RECURSIVE DivBy58(_, _)
\* the quotient bytes of (carry, bytes) by 58, followed by the remainder
DivBy58(b, carry) ==
    IF b = <<>> THEN <<carry>>
    ELSE LET n == carry * 256 + b[1]
         IN  <<n \div 58>> \o DivBy58(Tail(b), n % 58)

RECURSIVE StripZeros(_)
StripZeros(b) == IF b # <<>> /\ b[1] = 0 THEN StripZeros(Tail(b)) ELSE b

RECURSIVE LeadingZeros(_)
LeadingZeros(b) == IF b # <<>> /\ b[1] = 0 THEN 1 + LeadingZeros(Tail(b)) ELSE 0

RECURSIVE B58Digits(_)
\* the base58 digits of a number given as bytes without leading zeros
B58Digits(b) ==
    IF b = <<>> THEN <<>>
    ELSE LET qr == DivBy58(b, 0)
         IN  B58Digits(StripZeros(SubSeq(qr, 1, Len(qr) - 1)))
             \o <<B58Char(qr[Len(qr)])>>

Base58Encode(data) ==
    [i \in 1..LeadingZeros(data) |-> 49] \o B58Digits(StripZeros(data))

\* "did:key:"
DidKeyPrefix == <<100, 105, 100, 58, 107, 101, 121, 58>>

\* a DID made of the key bytes alone, without the multicodec tag
Ed25519PubKeyToDID_TagDropped(pubKey) ==
    DidKeyPrefix \o <<122>> \o Base58Encode(pubKey)

\* Ed25519PubKeyToDID gets the DID from a public key
Ed25519PubKeyToDID(pubKey) ==
    DidKeyPrefix \o <<122>> \o Base58Encode(<<237, 1>> \o pubKey)

\* "DID ", ";sig=", ";ts=", ";nonce="
HdrDID == <<68, 73, 68, 32>>
HdrSig == <<59, 115, 105, 103, 61>>
HdrTs == <<59, 116, 115, 61>>
HdrNonce == <<59, 110, 111, 110, 99, 101, 61>>

\* a header whose identity is derived anew from the key material at hand
createCanonicalHeader_DIDRecomputed(c, method, path, body, nonce, ts) ==
    LET payload == buildPayload(method, path, body, nonce, ts)
        sig == Sign(c.privKey, payload)
    IN  [authHeader |-> HdrDID \o Ed25519PubKeyToDID(c.privKey) \o HdrSig
                        \o Base64Encode(sig) \o HdrTs \o Dec(ts) \o HdrNonce \o nonce,
         sig |-> sig,
         payload |-> payload]

\* a header whose signature does not cover the nonce
createCanonicalHeader_NonceUnsigned(c, method, path, body, nonce, ts) ==
    LET payload == buildPayload(method, path, body, <<>>, ts)
        sig == Sign(c.privKey, payload)
    IN  [authHeader |-> HdrDID \o c.did \o HdrSig \o Base64Encode(sig)
                        \o HdrTs \o Dec(ts) \o HdrNonce \o nonce,
         sig |-> sig,
         payload |-> payload]

\* createCanonicalHeader: the Authorization header and the raw signature
createCanonicalHeader(c, method, path, body, nonce, ts) ==
    LET payload == buildPayload(method, path, body, nonce, ts)
        sig == Sign(c.privKey, payload)
    IN  [authHeader |-> HdrDID \o c.did \o HdrSig \o Base64Encode(sig)
                        \o HdrTs \o Dec(ts) \o HdrNonce \o nonce,
         sig |-> sig,
         payload |-> payload]

\* the multiaddr of the gateway given to New: "/p2p/Q"
GatewayAddr == <<47, 112, 50, 112, 47, 81>>

\* New: the client of a private key; the DID is derived once, here
New(privKey) ==
    [privKey |-> privKey, did |-> Ed25519PubKeyToDID(Public(privKey)),
     p2pGatewayAddr |-> GatewayAddr]

\* DID returns the DID for this client
DID(c) == c.did

(***************************************************************************)
(* Envelopes and encoding/json.                                            *)
(*                                                                         *)
(* The JSON text is modelled member by member: "{", then for each member   *)
(* written a key byte, a length byte and the value's bytes, then "}".      *)
(* What json does to the values is kept: a member tagged omitempty is      *)
(* left out when empty, a string is coerced to valid UTF-8, a []byte is    *)
(* base64, a map is written in key order, a member the destination does    *)
(* not have is skipped, a member that is absent leaves the destination's   *)
(* field alone.  Strings hold ASCII and the byte 0xFF, which is never      *)
(* valid UTF-8.                                                            *)
(***************************************************************************)
\* a Go map[string]string: nil, or a map (a function from keys to values)
NilMap == [nil |-> TRUE, v |-> <<>>]
Map(m) == [nil |-> FALSE, v |-> m]

\* ProxyRequest represents the payload to send to the p2p-gateway
ProxyRequest(method, path, headers, body) ==
    [Method |-> method, Path |-> path, Headers |-> headers, Body |-> body]

\* ProxyResponse is the response from p2p-gateway
ProxyResponse(status, headers, body, error) ==
    [Status |-> status, Headers |-> headers, Body |-> body, Error |-> error]

\* var resp ProxyResponse: the zero value
ZeroResponse == ProxyResponse(0, NilMap, NilBytes, <<>>)
ZeroRequest == ProxyRequest(<<>>, <<>>, NilMap, NilBytes)

\* "{" and "}"
ObjOpen == 123
ObjClose == 125
\* the keys of the json tags: method, path, headers, body, status, error
KeyMethod == 109
KeyPath == 112
KeyHeaders == 104
KeyBody == 98
KeyStatus == 115
KeyError == 101

RECURSIVE CoerceUTF8(_)
\* json coerces a string to valid UTF-8: an invalid byte becomes U+FFFD
CoerceUTF8(s) ==
    IF \A i \in DOMAIN s : s[i] # 255 THEN s
    ELSE LET i == CHOOSE j \in DOMAIN s : s[j] = 255 /\ \A k \in 1..(j - 1) : s[k] # 255
         IN  SubSeq(s, 1, i - 1) \o <<239, 191, 189>>
             \o CoerceUTF8(SubSeq(s, i + 1, Len(s)))

\* a value with its length before it
Sized(v) == <<Len(v)>> \o v

\* one member: the key, then the value
Member(k, v) == <<k>> \o Sized(v)

RECURSIVE LexLess(_, _)
\* a < b as Go compares strings
LexLess(a, b) ==
    IF b = <<>> THEN FALSE
    ELSE IF a = <<>> THEN TRUE
    ELSE IF a[1] # b[1] THEN a[1] < b[1]
    ELSE LexLess(Tail(a), Tail(b))

RECURSIVE MapEntries(_, _)
\* the entries of m with keys in ks, in key order
MapEntries(m, ks) ==
    IF ks = {} THEN <<>>
    ELSE LET k == CHOOSE x \in ks : \A y \in ks \ {x} : LexLess(x, y)
         IN  Sized(CoerceUTF8(k)) \o Sized(CoerceUTF8(m[k]))
             \o MapEntries(m, ks \ {k})

\* the members of a map value: per entry, the key and the value, each with
\* its length
MarshalMap(m) == MapEntries(m, DOMAIN m)

\* omitempty: a map member is written when the map has entries
HeadersMember(h) ==
    IF h.nil \/ DOMAIN h.v = {} THEN <<>> ELSE Member(KeyHeaders, MarshalMap(h.v))

\* omitempty: a []byte member is written when it has bytes
BodyMember(b) ==
    IF b.nil \/ b.v = <<>> THEN <<>> ELSE Member(KeyBody, Base64Encode(b.v))

\* omitempty: a string member is written when it is not ""
ErrorMember(e) == IF e = <<>> THEN <<>> ELSE Member(KeyError, CoerceUTF8(e))

\* json.Marshal of a ProxyRequest or a ProxyResponse, members in field order
Marshal(v) ==
    IF "Status" \in DOMAIN v
    THEN <<ObjOpen>> \o Member(KeyStatus, Dec(v.Status)) \o HeadersMember(v.Headers)
         \o BodyMember(v.Body) \o ErrorMember(v.Error) \o <<ObjClose>>
    ELSE <<ObjOpen>> \o Member(KeyMethod, CoerceUTF8(v.Method))
         \o Member(KeyPath, CoerceUTF8(v.Path)) \o HeadersMember(v.Headers)
         \o BodyMember(v.Body) \o <<ObjClose>>

\* the errors of the codec
ErrNone == ""
ErrEOF == "EOF"
ErrUnexpectedEOF == "unexpected EOF"
ErrZeroLength == "zero-length message"
ErrSyntax == "json: syntax error"
ErrType == "json: cannot unmarshal"
ErrBase64 == "illegal base64 data"

RECURSIVE ParseMap(_)
\* the entries of a map value: [ok, m]; a later entry of a key wins
ParseMap(d) ==
    IF d = <<>> THEN [ok |-> TRUE, m |-> <<>>]
    ELSE IF Len(d) < 1 + d[1] + 1 THEN [ok |-> FALSE, m |-> <<>>]
    ELSE LET kl == d[1]
             vl == d[2 + kl]
         IN  IF Len(d) < 2 + kl + vl THEN [ok |-> FALSE, m |-> <<>>]
             ELSE LET rest == ParseMap(SubSeq(d, 3 + kl + vl, Len(d)))
                      k == CoerceUTF8(SubSeq(d, 2, 1 + kl))
                      v == CoerceUTF8(SubSeq(d, 3 + kl, 2 + kl + vl))
                  IN  [ok |-> rest.ok, m |-> rest.m @@ (k :> v)]

RECURSIVE ParseMembers(_)
\* the members that follow "{", up to the "}" that ends the text: [ok, ms]
ParseMembers(d) ==
    IF d = <<>> THEN [ok |-> FALSE, ms |-> <<>>]
    ELSE IF d[1] = ObjClose THEN [ok |-> Len(d) = 1, ms |-> <<>>]
    ELSE IF Len(d) < 2 \/ Len(d) < 2 + d[2] THEN [ok |-> FALSE, ms |-> <<>>]
    ELSE LET rest == ParseMembers(SubSeq(d, 3 + d[2], Len(d)))
             v == SubSeq(d, 3, 2 + d[2])
         IN  [ok |-> rest.ok /\ (d[1] = KeyHeaders => ParseMap(v).ok),
              ms |-> <<[k |-> d[1], v |-> v]>> \o rest.ms]

\* whether the text is valid JSON (json.Unmarshal checks this first and
\* leaves the destination alone when it is not)
ValidJSON(data) ==
    /\ data # <<>>
    /\ data[1] = ObjOpen
    /\ ParseMembers(Tail(data)).ok

\* a JSON number that fits an int
DecValid(v) ==
    LET digits == IF v # <<>> /\ v[1] = 45 THEN Tail(v) ELSE v
    IN  /\ digits # <<>>
        /\ Len(digits) <= 9
        /\ \A i \in DOMAIN digits : digits[i] >= 48 /\ digits[i] <= 57

RECURSIVE ParseNat(_)
ParseNat(v) == IF v = <<>> THEN 0 ELSE ParseNat(SubSeq(v, 1, Len(v) - 1)) * 10 + (v[Len(v)] - 48)

ParseDec(v) == IF v[1] = 45 THEN 0 - ParseNat(Tail(v)) ELSE ParseNat(v)

\* decoding a JSON object into a map field: a nil map is allocated, the
\* entries are stored into the map
DecodeMap(old, v) == Map(ParseMap(v).m @@ old.v)

\* the first error is the one json.Unmarshal returns
FirstErr(acc, err) == IF acc.err = ErrNone THEN err ELSE acc.err

RECURSIVE DecodeMembers(_, _)
\* the members stored one after the other into the destination: a member
\* whose value does not fit its field is skipped and its error remembered
DecodeMembers(ms, acc) ==
    IF ms = <<>> THEN acc
    ELSE
        LET k == ms[1].k
            v == ms[1].v
            dst == acc.val
            isResp == "Status" \in DOMAIN dst
            next ==
                IF k = KeyHeaders THEN
                    [acc EXCEPT !.val.Headers = DecodeMap(dst.Headers, v)]
                ELSE IF k = KeyBody THEN
                    IF Base64Valid(v)
                    THEN [acc EXCEPT !.val.Body = Bytes(Base64Decode(v))]
                    ELSE [acc EXCEPT !.err = FirstErr(acc, ErrBase64)]
                ELSE IF isResp /\ k = KeyStatus THEN
                    IF DecValid(v)
                    THEN [acc EXCEPT !.val.Status = ParseDec(v)]
                    ELSE [acc EXCEPT !.err = FirstErr(acc, ErrType)]
                ELSE IF isResp /\ k = KeyError THEN
                    [acc EXCEPT !.val.Error = CoerceUTF8(v)]
                ELSE IF ~isResp /\ k = KeyMethod THEN
                    [acc EXCEPT !.val.Method = CoerceUTF8(v)]
                ELSE IF ~isResp /\ k = KeyPath THEN
                    [acc EXCEPT !.val.Path = CoerceUTF8(v)]
                ELSE acc
        IN  DecodeMembers(Tail(ms), next)

\* json.Unmarshal(data, dst): [err, val], val the destination afterwards
Unmarshal(data, dst) ==
    IF ~ValidJSON(data) THEN [err |-> ErrSyntax, val |-> dst]
    ELSE DecodeMembers(ParseMembers(Tail(data)).ms, [err |-> ErrNone, val |-> dst])

(***************************************************************************)
(* io.Writer, and bufio.Writer over one.                                    *)
(***************************************************************************)
\* an io.Writer that takes `room` more bytes and then fails (-1: never
\* fails); out is what it has taken
Writer(out, room) == [out |-> out, room |-> room]

\* w.Write(p): [w, err], the writer afterwards and whether the write failed
Write(w, p) ==
    IF w.room < 0 \/ Len(p) <= w.room
    THEN [w |-> Writer(w.out \o p, IF w.room < 0 THEN w.room ELSE w.room - Len(p)),
          err |-> FALSE]
    ELSE [w |-> Writer(w.out \o SubSeq(p, 1, w.room), 0), err |-> TRUE]

\* the size of the buffer of bufio.NewWriter, scaled down from 4096 so
\* that a request frame is larger than the buffer
BufSize == 64

\* bufio.NewWriter(s)
NewBufWriter(w) == [buf |-> <<>>, wr |-> w, failed |-> FALSE]

\* Flush that does not report the error of the stream
BufFlush_ErrorDropped(b) ==
    IF b.buf = <<>> THEN [w |-> b, err |-> FALSE]
    ELSE LET r == Write(b.wr, b.buf)
         IN  [w |-> [b EXCEPT !.buf = <<>>, !.wr = r.w], err |-> FALSE]

\* (b *bufio.Writer).Flush: [w, err]
BufFlush(b) ==
    IF b.failed THEN [w |-> b, err |-> TRUE]
    ELSE IF b.buf = <<>> THEN [w |-> b, err |-> FALSE]
    ELSE LET r == Write(b.wr, b.buf)
             n == Len(r.w.out) - Len(b.wr.out)
         IN  IF r.err
             THEN [w |-> [buf |-> SubSeq(b.buf, n + 1, Len(b.buf)), wr |-> r.w,
                          failed |-> TRUE],
                   err |-> TRUE]
             ELSE [w |-> [b EXCEPT !.buf = <<>>, !.wr = r.w], err |-> FALSE]

RECURSIVE BufWrite(_, _)
\* (b *bufio.Writer).Write(p): [w, err]
BufWrite(b, p) ==
    IF b.failed THEN [w |-> b, err |-> TRUE]
    ELSE IF Len(p) > BufSize - Len(b.buf) THEN
        IF b.buf = <<>> THEN
            \* a large write with an empty buffer goes to the stream directly
            LET r == Write(b.wr, p)
            IN  [w |-> [b EXCEPT !.wr = r.w, !.failed = r.err], err |-> r.err]
        ELSE
            LET n == BufSize - Len(b.buf)
                f == BufFlush([b EXCEPT !.buf = b.buf \o SubSeq(p, 1, n)])
            IN  BufWrite(f.w, SubSeq(p, n + 1, Len(p)))
    ELSE [w |-> [b EXCEPT !.buf = b.buf \o p], err |-> FALSE]

\* Write on whichever writer w is
WriteTo(w, p) == IF "buf" \in DOMAIN w THEN BufWrite(w, p) ELSE Write(w, p)

(***************************************************************************)
(* The frame codec.                                                        *)
(***************************************************************************)
\* binary.BigEndian.PutUint32 of uint32(n)
PutUint32(n) ==
    <<(n \div 16777216) % 256, (n \div 65536) % 256, (n \div 256) % 256, n % 256>>

\* binary.BigEndian.Uint32
Uint32(b) == ((b[1] * 256 + b[2]) * 256 + b[3]) * 256 + b[4]

\* writeMessage whose prefix counts one byte too many
writeMessage_LongPrefix(w, v) ==
    LET b == Marshal(v)
        first == WriteTo(w, PutUint32(Len(b) + 1))
    IN  IF first.err THEN first ELSE WriteTo(first.w, b)

\* writeMessage(w, v): the length prefix, then the payload; [w, err]
writeMessage(w, v) ==
    LET b == Marshal(v)
        first == WriteTo(w, PutUint32(Len(b)))
    IN  IF first.err THEN first ELSE WriteTo(first.w, b)

\* an io.Reader holding the bytes data, after which it reports EOF if eof
\* and blocks otherwise
Reader(data, eof) == [data |-> data, eof |-> eof]

\* whether io.ReadFull(r, buf) of n bytes returns (it blocks until the
\* bytes are there or the stream ends)
CanReadFull(r, n) == r.eof \/ Len(r.data) >= n

\* whether readMessage returns rather than staying blocked in a read
CanReadMessage(r) ==
    /\ CanReadFull(r, 4)
    /\ Len(r.data) >= 4 /\ Uint32(r.data) # 0
          => CanReadFull(r, 4 + Uint32(r.data))

\* the error of io.ReadFull that got `got` bytes of the ones it wanted
ShortRead(got) == IF got = 0 THEN ErrEOF ELSE ErrUnexpectedEOF

\* readMessage without the test of the length
readMessage_ZeroAccepted(r, dst) ==
    IF Len(r.data) < 4
    THEN [err |-> ShortRead(Len(r.data)), dst |-> dst, n |-> Len(r.data)]
    ELSE LET l == Uint32(r.data)
         IN  IF Len(r.data) < 4 + l
             THEN [err |-> ShortRead(Len(r.data) - 4), dst |-> dst,
                   n |-> Len(r.data)]
             ELSE LET u == Unmarshal(SubSeq(r.data, 5, 4 + l), dst)
                  IN  [err |-> u.err, dst |-> u.val, n |-> 4 + l]

\* readMessage that decodes the bytes it got when the payload ends early
readMessage_ShortDecoded(r, dst) ==
    IF Len(r.data) < 4
    THEN [err |-> ShortRead(Len(r.data)), dst |-> dst, n |-> Len(r.data)]
    ELSE LET l == Uint32(r.data)
         IN  IF l = 0 THEN [err |-> ErrZeroLength, dst |-> dst, n |-> 4]
             ELSE LET got == IF Len(r.data) < 4 + l THEN Len(r.data) ELSE 4 + l
                      u == Unmarshal(SubSeq(r.data, 5, got), dst)
                  IN  [err |-> u.err, dst |-> u.val, n |-> got]

\* readMessage(r, dst): [err, dst, n], the error, the destination
\* afterwards and the number of bytes taken from r
readMessage(r, dst) ==
    IF Len(r.data) < 4
    THEN [err |-> ShortRead(Len(r.data)), dst |-> dst, n |-> Len(r.data)]
    ELSE LET l == Uint32(r.data)
         IN  IF l = 0 THEN [err |-> ErrZeroLength, dst |-> dst, n |-> 4]
             ELSE IF Len(r.data) < 4 + l
             THEN [err |-> ShortRead(Len(r.data) - 4), dst |-> dst,
                   n |-> Len(r.data)]
             ELSE LET u == Unmarshal(SubSeq(r.data, 5, 4 + l), dst)
                  IN  [err |-> u.err, dst |-> u.val, n |-> 4 + l]

(***************************************************************************)
(* Endpoints and the inputs of the model.                                  *)
(***************************************************************************)
\* "GET", "POST"
GET == <<71, 69, 84>>
POST == <<80, 79, 83, 84>>
\* "/v1/plans", "/v1/services", "/management"
UriPlans == <<47, 118, 49, 47, 112, 108, 97, 110, 115>>
UriServices == <<47, 118, 49, 47, 115, 101, 114, 118, 105, 99, 101, 115>>
UriManagement == <<47, 109, 97, 110, 97, 103, 101, 109, 101, 110, 116>>

PlansEndpoint == [Method |-> GET, Uri |-> UriPlans]
ListUserServicesEndpoint == [Method |-> GET, Uri |-> UriServices]
CreateServicesEndpoint == [Method |-> POST, Uri |-> UriServices]
\* fmt.Sprintf(GetUserServiceEndpoint.Uri, id), "/v1/services/%d"
GetUserServiceUri(id) == UriServices \o <<47>> \o Dec(id)
\* fmt.Sprintf(ManageServiceEndpoint.Uri, id), "/v1/services/%d/management"
ManageServiceUri(id) == UriServices \o <<47>> \o Dec(id) \o UriManagement

\* the nonce Plans signs with, "n1"
PlansNonce == <<110, 49>>

\* the private key the client is made with
ClientKey == <<7, 9>>

\* the nonces callers supply: "n1", "n2", ...
Nonces == {<<110, 48 + i>> : i \in 1..MaxCalls}

\* the goroutines that issue calls
Exchanges == 1..MaxExchanges

\* the arguments of RawRequest
RawBodies == {NilBytes, Bytes(<<1>>)}
Timestamps == 0..MaxClock

\* the service ids and actions callers pass; "START"
ServiceIds == {1}
ServiceStart == <<83, 84, 65, 82, 84>>
Actions == {<<>>, ServiceStart}

\* CreateServiceRequest values: a valid one, and one per missing field
CreateRequest(plan, os, amount, key) ==
    [PlanID |-> plan, OS |-> os, Amount |-> amount, SSHPublicKey |-> key,
     Name |-> <<>>]
CreateRequests ==
    {CreateRequest(1, <<117>>, 1, <<107>>), CreateRequest(0, <<117>>, 1, <<107>>),
     CreateRequest(1, <<>>, 1, <<107>>), CreateRequest(1, <<117>>, 0, <<107>>),
     CreateRequest(1, <<117>>, 1, <<>>)}

\* json.Marshal of a CreateServiceRequest: plan_id, os, amount,
\* ssh_public_key, name
MarshalCreate(r) ==
    <<ObjOpen>> \o Member(105, Dec(r.PlanID)) \o Member(111, CoerceUTF8(r.OS))
    \o Member(97, Dec(r.Amount)) \o Member(107, CoerceUTF8(r.SSHPublicKey))
    \o Member(110, CoerceUTF8(r.Name)) \o <<ObjClose>>

\* json.Marshal of a serviceActionRequest: action
MarshalAction(action) == <<ObjOpen>> \o Member(97, CoerceUTF8(action)) \o <<ObjClose>>

\* the bodies of a reply to ServiceAction: {"action_id":"x"},
\* {"error":"e"}, both, and {"action_id":""}
KeyActionID == 97
ActionAck == <<ObjOpen>> \o Member(KeyActionID, <<120>>) \o <<ObjClose>>
ActionFailed == <<ObjOpen>> \o Member(KeyError, <<101>>) \o <<ObjClose>>
ActionBoth ==
    <<ObjOpen>> \o Member(KeyError, <<101>>) \o Member(KeyActionID, <<120>>)
    \o <<ObjClose>>
ActionNoID == <<ObjOpen>> \o Member(KeyActionID, <<>>) \o <<ObjClose>>
ActionBodies == {ActionAck, ActionFailed, ActionBoth, ActionNoID}
RespAction(body) == ProxyResponse(200, NilMap, Bytes(body), <<>>)

\* what the peer may send on a stream
RespOK == ProxyResponse(200, NilMap, Bytes(<<1>>), <<>>)
\* error "no"
RespForbidden == ProxyResponse(403, NilMap, NilBytes, <<110, 111>>)
Frame(v) == PutUint32(Len(Marshal(v))) \o Marshal(v)
PeerReplies ==
    { Frame(RespOK),                                 \* a response
      Frame(RespForbidden),                          \* an application error
      Frame(RespOK) \o Frame(RespForbidden),         \* two frames
      <<0, 0, 0, 0, 123, 125>>,                      \* length 0, then bytes
      SubSeq(Frame(RespOK), 1, 2),                   \* part of the prefix
      SubSeq(Frame(RespOK), 1, 4),                   \* the prefix alone
      SubSeq(Frame(RespOK), 1, 7),                   \* part of the payload
      <<0, 0, 0, 2, 1, 2>> }                         \* not JSON
    \cup {Frame(RespAction(b)) : b \in ActionBodies}
\* the replies of the concurrent specification
ConcReplies == {Frame(RespOK), Frame(RespForbidden)}

\* after how many bytes a write to the stream fails (-1: it does not)
WriteRooms == {0 - 1, 0, 10}

(***************************************************************************)
(* The state.                                                              *)
(***************************************************************************)
VARIABLES
    client,      \* the Client: privKey, did
    pc,          \* per goroutine: where its call is
    op,          \* per goroutine: the operation called
    args,        \* per goroutine: method, path, body, nonce, ts of request
    callId,      \* per goroutine: the number of its call
    expired,     \* per goroutine: ctx is done (deadline or cancellation)
    sid,         \* per goroutine: the stream s of request, 0 before NewStream
    bw,          \* per goroutine: the bytes buffered in bw
    req,         \* per goroutine: the ProxyRequest built
    resp,        \* per goroutine: the local resp that readMessage fills
    ret,         \* per goroutine: what request returned
    steps,       \* per goroutine: the steps request took, with their outcome
    streams,     \* the streams opened so far
    calls,       \* the number of calls issued
    now,         \* time.Now().Unix()
    usedNonces,  \* the nonces callers have supplied
    signed,      \* the canonical payloads signed, in order
    sigSt,       \* the state of the signing specification
    codecSt      \* the state of the codec specification

exVars == <<client, pc, op, args, callId, expired, sid, bw, req, resp, ret, steps,
            streams, calls, now, usedNonces, signed>>
vars == <<client, pc, op, args, callId, expired, sid, bw, req, resp, ret, steps,
          streams, calls, now, usedNonces, signed, sigSt, codecSt>>

\* errors: nil, fmt.Errorf("<stage>: %w", cause), errors.New(msg)
NilErr == [kind |-> "nil", stage |-> "", cause |-> "", msg |-> <<>>]
Wrapped(stage, cause) == [kind |-> "wrapped", stage |-> stage, cause |-> cause, msg |-> <<>>]
NewErr(msg) == [kind |-> "new", stage |-> "", cause |-> "", msg |-> msg]

\* a *ProxyResponse: nil, or a pointer to v
NilResp == [nil |-> TRUE, v |-> ZeroResponse]
PtrResp(v) == [nil |-> FALSE, v |-> v]

NoArgs == [method |-> <<>>, path |-> <<>>, body |-> NilBytes, nonce |-> <<>>, ts |-> 0]
NoRet == [resp |-> NilResp, err |-> NilErr]

\* a stream the host opened: what reached the peer, what the peer sent,
\* whether the peer closed its side, whether Close was called, and how it
\* was used: frames written, frames read, any use after Close
NewStreamRec(owner) ==
    [owner |-> owner, out |-> <<>>, inb |-> <<>>, peerClosed |-> FALSE,
     closed |-> FALSE, rd |-> 0, writes |-> 0, reads |-> 0, late |-> FALSE]

PureIdle == [stage |-> "off"]

ExInit ==
    /\ client = New(ClientKey)
    /\ pc = [e \in Exchanges |-> "idle"]
    /\ op = [e \in Exchanges |-> ""]
    /\ args = [e \in Exchanges |-> NoArgs]
    /\ callId = [e \in Exchanges |-> 0]
    /\ expired = [e \in Exchanges |-> FALSE]
    /\ sid = [e \in Exchanges |-> 0]
    /\ bw = [e \in Exchanges |-> <<>>]
    /\ req = [e \in Exchanges |-> ZeroRequest]
    /\ resp = [e \in Exchanges |-> ZeroResponse]
    /\ ret = [e \in Exchanges |-> NoRet]
    /\ steps = [e \in Exchanges |-> <<>>]
    /\ streams = <<>>
    /\ calls = 0
    /\ now = 0
    /\ usedNonces = {}
    /\ signed = <<>>

Init == ExInit /\ sigSt = PureIdle /\ codecSt = PureIdle

(***************************************************************************)
(* Calls.  A caller supplies a nonce it has not supplied before; the       *)
(* wrappers take the timestamp from the clock.                             *)
(***************************************************************************)
InFlight(e) == pc[e] \in {"connect", "newStream", "send", "flush", "read"}

\* c.request(ctx, method, path, body, nonce, ts) is entered: ctx gets its
\* timeout
EnterRequest(e, o, method, path, body, nonce, ts) ==
    /\ pc[e] = "idle"
    /\ calls < MaxCalls
    /\ pc' = [pc EXCEPT ![e] = "connect"]
    /\ op' = [op EXCEPT ![e] = o]
    /\ args' = [args EXCEPT ![e] = [method |-> method, path |-> path, body |-> body,
                                    nonce |-> nonce, ts |-> ts]]
    /\ calls' = calls + 1
    /\ callId' = [callId EXCEPT ![e] = calls + 1]
    /\ expired' = [expired EXCEPT ![e] = FALSE]
    /\ UNCHANGED <<client, sid, bw, req, resp, ret, steps, streams, now, signed, sigSt,
                   codecSt>>

\* a wrapper returns an error before it calls c.request
RejectCall(e, o, msg) ==
    /\ pc[e] = "idle"
    /\ calls < MaxCalls
    /\ pc' = [pc EXCEPT ![e] = "done"]
    /\ op' = [op EXCEPT ![e] = o]
    /\ calls' = calls + 1
    /\ callId' = [callId EXCEPT ![e] = calls + 1]
    /\ ret' = [ret EXCEPT ![e] = [resp |-> NilResp, err |-> NewErr(msg)]]
    /\ UNCHANGED <<client, args, expired, sid, bw, req, resp, steps, streams, now,
                   signed, sigSt, codecSt>>

FreshNonce(nonce) ==
    /\ nonce \notin usedNonces
    /\ usedNonces' = usedNonces \cup {nonce}

\* RawRequest sends a raw request given the method, path, body and other args
RawRequest(e, method, path, body, nonce, ts) ==
    /\ FreshNonce(nonce)
    /\ EnterRequest(e, "RawRequest", method, path, body, nonce, ts)

\* Plans returns a list of available plans
Plans(e) ==
    /\ EnterRequest(e, "Plans", PlansEndpoint.Method, PlansEndpoint.Uri, NilBytes,
                    PlansNonce, 0)
    /\ UNCHANGED usedNonces

\* ListServices returns a list of available services
ListServices(e, nonce) ==
    /\ FreshNonce(nonce)
    /\ EnterRequest(e, "ListServices", ListUserServicesEndpoint.Method,
                    ListUserServicesEndpoint.Uri, NilBytes, nonce, now)

\* Get a specific service
GetService(e, id, nonce) ==
    /\ FreshNonce(nonce)
    /\ EnterRequest(e, "GetService", GET, GetUserServiceUri(id), NilBytes, nonce, now)

\* validation that does not look at the number of instances
CreateInvalid_AmountUnchecked(r) ==
    IF r.PlanID = 0 THEN <<112, 108>>
    ELSE IF r.OS = <<>> THEN <<111, 115>>
    ELSE IF r.SSHPublicKey = <<>> THEN <<115, 115>>
    ELSE <<>>

\* "plan id is required", "os is required", ... : the messages are told
\* apart by their first letters
CreateInvalid(r) ==
    IF r.PlanID = 0 THEN <<112, 108>>
    ELSE IF r.OS = <<>> THEN <<111, 115>>
    ELSE IF r.Amount <= 0 THEN <<110, 117>>
    ELSE IF r.SSHPublicKey = <<>> THEN <<115, 115>>
    ELSE <<>>

\* CreateServices creates a new service
CreateServices(e, request, nonce) ==
    /\ FreshNonce(nonce)
    /\ IF CreateInvalid(request) # <<>>
       THEN RejectCall(e, "CreateServices", CreateInvalid(request))
       ELSE EnterRequest(e, "CreateServices", CreateServicesEndpoint.Method,
                         CreateServicesEndpoint.Uri, Bytes(MarshalCreate(request)),
                         nonce, now)

\* ServiceAction performs an action on a service; "action is required"
ServiceAction(e, action, id, nonce) ==
    /\ FreshNonce(nonce)
    /\ IF action = <<>>
       THEN RejectCall(e, "ServiceAction", <<97, 99>>)
       ELSE EnterRequest(e, "ServiceAction", POST, ManageServiceUri(id),
                         Bytes(MarshalAction(action)), nonce, now)

\* type serviceActionResponse struct: Error, ActionID
serviceActionResponse(error, actionID) == [Error |-> error, ActionID |-> actionID]

RECURSIVE DecodeAction(_, _)
\* the members stored one after the other into a serviceActionResponse
DecodeAction(ms, acc) ==
    IF ms = <<>> THEN acc
    ELSE LET k == ms[1].k
             v == ms[1].v
             next == IF k = KeyError THEN [acc EXCEPT !.val.Error = CoerceUTF8(v)]
                     ELSE IF k = KeyActionID
                     THEN [acc EXCEPT !.val.ActionID = CoerceUTF8(v)]
                     ELSE acc
         IN  DecodeAction(Tail(ms), next)

\* json.Unmarshal(resp.Body, &actionResp): [err, val]
UnmarshalAction(data, dst) ==
    IF ~ValidJSON(data) THEN [err |-> ErrSyntax, val |-> dst]
    ELSE DecodeAction(ParseMembers(Tail(data)).ms, [err |-> ErrNone, val |-> dst])

\* ServiceAction that does not look at the action id
ServiceActionReturn_ActionIDUnchecked(r) ==
    IF r.err # NilErr THEN r.err
    ELSE LET d == UnmarshalAction(r.resp.v.Body.v, serviceActionResponse(<<>>, <<>>))
         IN  IF d.err # ErrNone
             THEN Wrapped("failed to unmarshal ServiceAction", d.err)
             ELSE IF d.val.Error # <<>> THEN NewErr(d.val.Error)
             ELSE NilErr

\* what ServiceAction returns once c.request has returned r to it: the
\* error of request, the error of decoding the body, the error the action
\* response names, "failed to perform action", or nil
ServiceActionReturn(r) ==
    IF r.err # NilErr THEN r.err
    ELSE LET d == UnmarshalAction(r.resp.v.Body.v, serviceActionResponse(<<>>, <<>>))
         IN  IF d.err # ErrNone
             THEN Wrapped("failed to unmarshal ServiceAction", d.err)
             ELSE IF d.val.Error # <<>> THEN NewErr(d.val.Error)
             ELSE IF d.val.ActionID = <<>> THEN NewErr(<<102, 97>>)
             ELSE NilErr

(***************************************************************************)
(* Client.request, step by step.                                           *)
(***************************************************************************)
\* request returns (resp, err); strs are the streams as the step left them
\* (defer cancel(): ctx is done from then on)
Finish(e, rsp, err, strs) ==
    /\ pc' = [pc EXCEPT ![e] = "done"]
    /\ ret' = [ret EXCEPT ![e] = [resp |-> rsp, err |-> err]]
    /\ expired' = [expired EXCEPT ![e] = TRUE]
    /\ streams' = strs

\* request without its deferred s.Close()
DeferredClose_Missing(strs, s) == strs

\* defer s.Close(): runs when request returns after the stream was opened
DeferredClose(strs, s) == [strs EXCEPT ![s].closed = TRUE]

\* request that uses the first stream of the client, whoever opened it
StreamOf_First(e) == 1

\* the stream a step of request works on
StreamOf(e) == sid[e]

\* a step uses stream s: noted when the stream was closed before
Used(st) == [st EXCEPT !.late = st.late \/ st.closed]

Step(e, name, ok) == steps' = [steps EXCEPT ![e] = Append(steps[e], [op |-> name, ok |-> ok])]

\* c.host.Connect(ctx, *c.addrInfo): it returns, at the latest when ctx is done
ConnectOutcomes(e) ==
    {"ok", "dial failed"} \cup (IF expired[e] THEN {"context deadline exceeded"} ELSE {})

\* Connect that dials a second time when the first dial fails
Connect_Retried(e) ==
    /\ pc[e] = "connect"
    /\ \E outcome \in ConnectOutcomes(e) :
          /\ Step(e, "connect", outcome = "ok")
          /\ IF outcome = "ok"
             THEN /\ pc' = [pc EXCEPT ![e] = "newStream"]
                  /\ UNCHANGED <<ret, streams, expired>>
             ELSE IF steps[e] = <<>>
             THEN UNCHANGED <<pc, ret, streams, expired>>
             ELSE Finish(e, NilResp, Wrapped("failed to connect to server", outcome),
                         streams)
    /\ UNCHANGED <<client, op, args, callId, sid, bw, req, resp, calls, now,
                   usedNonces, signed, sigSt, codecSt>>

\* request that goes on to open the stream when the dial has failed
Connect_FailureIgnored(e) ==
    /\ pc[e] = "connect"
    /\ \E outcome \in ConnectOutcomes(e) :
          /\ Step(e, "connect", outcome = "ok")
          /\ pc' = [pc EXCEPT ![e] = "newStream"]
          /\ UNCHANGED <<ret, streams, expired>>
    /\ UNCHANGED <<client, op, args, callId, sid, bw, req, resp, calls, now,
                   usedNonces, signed, sigSt, codecSt>>

Connect(e) ==
    /\ pc[e] = "connect"
    /\ \E outcome \in ConnectOutcomes(e) :
          /\ Step(e, "connect", outcome = "ok")
          /\ IF outcome = "ok"
             THEN /\ pc' = [pc EXCEPT ![e] = "newStream"]
                  /\ UNCHANGED <<ret, streams, expired>>
             ELSE Finish(e, NilResp, Wrapped("failed to connect to server", outcome),
                         streams)
    /\ UNCHANGED <<client, op, args, callId, sid, bw, req, resp, calls, now,
                   usedNonces, signed, sigSt, codecSt>>

\* c.host.NewStream(ctx, c.addrInfo.ID, ProtocolID): a stream of its own
NewStreamOutcomes(e) ==
    {"ok", "protocol not supported"}
    \cup (IF expired[e] THEN {"context deadline exceeded"} ELSE {})

\* NewStream that hands out the stream opened last again
OpenStream_Reused(e) == IF Len(streams) = 0 THEN 1 ELSE Len(streams)

\* the stream NewStream returns: a new one, after the ones opened so far
OpenStream(e) == Len(streams) + 1

NewStream(e) ==
    /\ pc[e] = "newStream"
    /\ \E outcome \in NewStreamOutcomes(e) :
          /\ Step(e, "newStream", outcome = "ok")
          /\ IF outcome = "ok"
             THEN /\ pc' = [pc EXCEPT ![e] = "send"]
                  /\ sid' = [sid EXCEPT ![e] = OpenStream(e)]
                  /\ streams' = IF OpenStream(e) > Len(streams)
                                THEN Append(streams, NewStreamRec(callId[e]))
                                ELSE streams
                  /\ bw' = [bw EXCEPT ![e] = <<>>]
                  /\ UNCHANGED <<ret, expired>>
             ELSE /\ Finish(e, NilResp, Wrapped("failed to open stream", outcome), streams)
                  /\ UNCHANGED <<sid, bw>>
    /\ UNCHANGED <<client, op, args, callId, req, resp, calls, now,
                   usedNonces, signed, sigSt, codecSt>>

\* "Authorization"
Authorization == <<65, 117, 116, 104, 111, 114, 105, 122, 97, 116, 105, 111, 110>>

\* an envelope that does not carry the body
BuildRequest_BodyDropped(a, authHeader) ==
    ProxyRequest(a.method, a.path, Map(Authorization :> authHeader), NilBytes)

\* the ProxyRequest of a call: its method, path and body, and the
\* Authorization header
BuildRequest(a, authHeader) ==
    ProxyRequest(a.method, a.path, Map(Authorization :> authHeader), a.body)

\* createCanonicalHeader, the request envelope, writeMessage(bw, req)
Send(e) ==
    /\ pc[e] = "send"
    /\ LET s == StreamOf(e)
           st == streams[s]
           a == args[e]
           h == createCanonicalHeader(client, a.method, a.path, a.body, a.nonce, a.ts)
           r == BuildRequest(a, h.authHeader)
       IN  /\ signed' = Append(signed, [call |-> callId[e], op |-> op[e],
                                         nonce |-> a.nonce, ts |-> a.ts,
                                         payload |-> h.payload])
           /\ req' = [req EXCEPT ![e] = r]
           /\ \E room \in WriteRooms :
                 LET w == writeMessage([buf |-> bw[e], wr |-> Writer(st.out, room),
                                        failed |-> FALSE], r)
                     st2 == [Used(st) EXCEPT !.out = w.w.wr.out, !.writes = @ + 1]
                     strs == [streams EXCEPT ![s] = st2]
                 IN  /\ bw' = [bw EXCEPT ![e] = w.w.buf]
                     /\ Step(e, "write", ~w.err)
                     /\ IF w.err
                        THEN Finish(e, NilResp,
                                    Wrapped("failed to send request:", "write failed"),
                                    DeferredClose(strs, s))
                        ELSE /\ pc' = [pc EXCEPT ![e] = "flush"]
                             /\ streams' = strs
                             /\ UNCHANGED <<ret, expired>>
    /\ UNCHANGED <<client, op, args, callId, sid, resp, calls, now, usedNonces,
                   sigSt, codecSt>>

\* bw.Flush()
Flush(e) ==
    /\ pc[e] = "flush"
    /\ LET s == StreamOf(e)
           st == streams[s]
       IN  \E room \in WriteRooms :
              LET f == BufFlush([buf |-> bw[e], wr |-> Writer(st.out, room),
                                 failed |-> FALSE])
                  st2 == [Used(st) EXCEPT !.out = f.w.wr.out]
                  strs == [streams EXCEPT ![s] = st2]
              IN  /\ bw' = [bw EXCEPT ![e] = f.w.buf]
                  /\ Step(e, "flush", ~f.err)
                  /\ IF f.err
                     THEN Finish(e, NilResp, Wrapped("failed to flush", "write failed"),
                                 DeferredClose(strs, s))
                     ELSE /\ pc' = [pc EXCEPT ![e] = "read"]
                          /\ streams' = strs
                          /\ UNCHANGED <<ret, expired>>
    /\ UNCHANGED <<client, op, args, callId, sid, req, resp, calls, now,
                   usedNonces, signed, sigSt, codecSt>>

\* what br can read of stream st: the bytes the peer sent that were not
\* read yet, then EOF once the peer has closed
StreamReader(st) == Reader(SubSeq(st.inb, st.rd + 1, Len(st.inb)), st.peerClosed)

\* request that returns neither a response nor an error when the peer
\* reports one
Outcome_BothNil(r) ==
    IF r.Error # <<>>
    THEN [resp |-> NilResp, err |-> NilErr]
    ELSE [resp |-> PtrResp(r), err |-> NilErr]

\* request that returns the decoded response whatever its Error
Outcome_ErrorIgnored(r) == [resp |-> PtrResp(r), err |-> NilErr]

\* the end of request: an application error, or the response
Outcome(r) ==
    IF r.Error # <<>>
    THEN [resp |-> NilResp, err |-> NewErr(r.Error)]
    ELSE [resp |-> PtrResp(r), err |-> NilErr]

\* readMessage(br, &resp) and the return: the step is taken when
\* readMessage returns, and not while it is blocked in a read
Read(e) ==
    /\ pc[e] = "read"
    /\ LET s == StreamOf(e)
           st == streams[s]
       IN  /\ CanReadMessage(StreamReader(st))
           /\ LET m == readMessage(StreamReader(st), ZeroResponse)
                  st2 == [Used(st) EXCEPT !.rd = @ + m.n, !.reads = @ + 1]
                  strs == DeferredClose([streams EXCEPT ![s] = st2], s)
              IN  /\ resp' = [resp EXCEPT ![e] = m.dst]
                  /\ Step(e, "read", m.err = ErrNone)
                  /\ IF m.err # ErrNone
                     THEN Finish(e, NilResp, Wrapped("failed to read response", m.err),
                                 strs)
                     ELSE Finish(e, Outcome(m.dst).resp, Outcome(m.dst).err, strs)
    /\ UNCHANGED <<client, op, args, callId, sid, bw, req, calls, now,
                   usedNonces, signed, sigSt, codecSt>>

\* the deadline of ctx passes (sendRequestTimeout after the call), or the
\* caller cancels
Expire(e) ==
    /\ InFlight(e)
    /\ ~expired[e]
    /\ expired' = [expired EXCEPT ![e] = TRUE]
    /\ UNCHANGED <<client, pc, op, args, callId, sid, bw, req, resp, ret, steps, streams,
                   calls, now, usedNonces, signed, sigSt, codecSt>>

\* a stream that is closed and whose call has returned keeps how it was
\* used; its bytes are gone
Discard(st) == [st EXCEPT !.out = <<>>, !.inb = <<>>, !.rd = 0, !.peerClosed = FALSE]

\* the caller has the result; the goroutine may issue its next call
Return(e) ==
    /\ pc[e] = "done"
    /\ pc' = [pc EXCEPT ![e] = "idle"]
    /\ op' = [op EXCEPT ![e] = ""]
    /\ args' = [args EXCEPT ![e] = NoArgs]
    /\ callId' = [callId EXCEPT ![e] = 0]
    /\ expired' = [expired EXCEPT ![e] = FALSE]
    /\ sid' = [sid EXCEPT ![e] = 0]
    /\ bw' = [bw EXCEPT ![e] = <<>>]
    /\ req' = [req EXCEPT ![e] = ZeroRequest]
    /\ resp' = [resp EXCEPT ![e] = ZeroResponse]
    /\ ret' = [ret EXCEPT ![e] = NoRet]
    /\ steps' = [steps EXCEPT ![e] = <<>>]
    /\ streams' = IF sid[e] = 0 THEN streams
                  ELSE [streams EXCEPT ![sid[e]] = Discard(@)]
    /\ UNCHANGED <<client, calls, now, usedNonces, signed, sigSt, codecSt>>

(***************************************************************************)
(* The peer and the clock.                                                 *)
(***************************************************************************)
\* whether the bytes that reached the peer are one whole frame
HasFrame(out) == Len(out) >= 4 /\ Len(out) = 4 + Uint32(out)

\* the peer, having the request, sends bytes on the stream
PeerSend(s, r) ==
    /\ HasFrame(streams[s].out)
    /\ ~streams[s].closed
    /\ ~streams[s].peerClosed
    /\ streams[s].inb = <<>>
    /\ streams' = [streams EXCEPT ![s].inb = r]
    /\ UNCHANGED <<client, pc, op, args, callId, expired, sid, bw, req, resp, ret, steps,
                   calls, now, usedNonces, signed, sigSt, codecSt>>

\* the peer, having the request, closes its side of the stream
PeerClose(s) ==
    /\ HasFrame(streams[s].out)
    /\ ~streams[s].closed
    /\ ~streams[s].peerClosed
    /\ streams' = [streams EXCEPT ![s].peerClosed = TRUE]
    /\ UNCHANGED <<client, pc, op, args, callId, expired, sid, bw, req, resp, ret, steps,
                   calls, now, usedNonces, signed, sigSt, codecSt>>

\* a second passes (between calls: a call reads the clock as it starts)
Tick ==
    /\ \A e \in Exchanges : pc[e] = "idle"
    /\ now < MaxClock
    /\ now' = now + 1
    /\ UNCHANGED <<client, pc, op, args, callId, expired, sid, bw, req, resp, ret, steps,
                   streams, calls, usedNonces, signed, sigSt, codecSt>>

(***************************************************************************)
(* Calls one after the other, with every operation of the client.          *)
(***************************************************************************)
\* the goroutine that issues them
Caller == 1

Call(e) ==
    /\ e = Caller
    /\ \/ \E body \in RawBodies, nonce \in Nonces, ts \in Timestamps :
             RawRequest(e, GET, UriPlans, body, nonce, ts)
       \/ Plans(e)
       \/ \E nonce \in Nonces : ListServices(e, nonce)
       \/ \E id \in ServiceIds, nonce \in Nonces : GetService(e, id, nonce)
       \/ \E r \in CreateRequests, nonce \in Nonces : CreateServices(e, r, nonce)
       \/ \E action \in Actions, id \in ServiceIds, nonce \in Nonces :
             ServiceAction(e, action, id, nonce)

Next ==
    \/ \E e \in Exchanges :
          \/ Call(e)
          \/ Connect(e)
          \/ NewStream(e)
          \/ Send(e)
          \/ Flush(e)
          \/ Read(e)
          \/ Expire(e)
          \/ Return(e)
    \/ \E s \in DOMAIN streams :
          \/ \E r \in PeerReplies : PeerSend(s, r)
          \/ PeerClose(s)
    \/ Tick

Spec == Init /\ [][Next]_vars

(***************************************************************************)
(* One caller and the deadline of ctx: what the scheduler and the timer    *)
(* guarantee.  A step of request that can be taken is taken, and the       *)
(* deadline passes; the peer owes nothing.                                 *)
(***************************************************************************)
DeadlineCall(e) ==
    /\ e = Caller
    /\ \/ Plans(e)
       \/ \E nonce \in Nonces : ListServices(e, nonce)

\* whether goroutine e can take its next step of request: every step but
\* the read of the response can be taken at once; the read waits for the
\* bytes of a frame or the end of the stream
CanStep(e) ==
    \/ pc[e] \in {"connect", "newStream", "send", "flush"}
    \/ pc[e] = "read" /\ CanReadMessage(StreamReader(streams[sid[e]]))

\* the scheduler runs goroutine e: it leaves the step of request it is at
Scheduled(e) ==
    /\ CanStep(e)
    /\ \E p \in {"newStream", "send", "flush", "read", "done"} :
          /\ p # pc[e]
          /\ pc' = [pc EXCEPT ![e] = p]

DeadlineNext ==
    \/ \E e \in Exchanges :
          \/ DeadlineCall(e)
          \/ Connect(e)
          \/ NewStream(e)
          \/ Send(e)
          \/ Flush(e)
          \/ Read(e)
          \/ Expire(e)
          \/ Return(e)
    \/ \E s \in DOMAIN streams :
          \/ \E r \in ConcReplies : PeerSend(s, r)
          \/ PeerClose(s)

FairSpec ==
    /\ Init
    /\ [][DeadlineNext]_vars
    /\ WF_pc(Scheduled(Caller))
    /\ WF_vars(Expire(Caller))

(***************************************************************************)
(* Concurrent calls: every goroutine issues RawRequest on the one Client.  *)
(***************************************************************************)
ConcCall(e) == \E nonce \in Nonces : RawRequest(e, GET, UriPlans, NilBytes, nonce, 0)

ConcNext ==
    \/ \E e \in Exchanges :
          \/ ConcCall(e)
          \/ Connect(e)
          \/ NewStream(e)
          \/ Send(e)
          \/ Flush(e)
          \/ Read(e)
          \/ Return(e)
    \/ \E s \in DOMAIN streams : \E r \in ConcReplies : PeerSend(s, r)

ConcSpec == Init /\ [][ConcNext]_vars

(***************************************************************************)
(* Signing and verifying: a header is made for one tuple, and the          *)
(* signature is verified against the payload rebuilt from another.         *)
(***************************************************************************)
\* "get", "GET\n/a"
MethodLower == <<103, 101, 116>>
MethodWithPath == GET \o <<LF, 47, 97>>
\* "/a", "b", "/a\nb"
PathA == <<47, 97>>
PathB == <<98>>
PathAB == PathA \o <<LF>> \o PathB

SigMethods == {GET, MethodLower, MethodWithPath}
SigPaths == {PathA, PathB, PathAB}
\* nil, and the bodies of zero bytes up to the longest
SigBodies == {NilBytes} \cup {Bytes([i \in 1..n |-> 0]) : n \in 0..MaxBodyLen}
SigTuples ==
    [method : SigMethods, path : SigPaths, body : SigBodies, nonce : Nonces,
     ts : Timestamps]

SigInit ==
    /\ ExInit
    /\ codecSt = PureIdle
    /\ \E a \in SigTuples, b \in SigTuples :
          sigSt = [stage |-> "input", a |-> a, b |-> b, sig |-> <<>>, ok |-> FALSE]

\* c.createCanonicalHeader over the first tuple
SigSign ==
    /\ sigSt.stage = "input"
    /\ LET a == sigSt.a
           h == createCanonicalHeader(client, a.method, a.path, a.body, a.nonce, a.ts)
       IN  sigSt' = [sigSt EXCEPT !.stage = "signed", !.sig = h.sig]
    /\ UNCHANGED <<exVars, codecSt>>

\* the payload is rebuilt from the second tuple and the signature verified
SigVerify ==
    /\ sigSt.stage = "signed"
    /\ LET b == sigSt.b
           payload == buildPayload(b.method, b.path, b.body, b.nonce, b.ts)
       IN  sigSt' = [sigSt EXCEPT !.stage = "verified",
                                  !.ok = Verify(Public(client.privKey), payload, sigSt.sig)]
    /\ UNCHANGED <<exVars, codecSt>>

SigNext == SigSign \/ SigVerify

SigSpec == SigInit /\ [][SigNext]_vars

(***************************************************************************)
(* The codec alone: an envelope is written with writeMessage and the       *)
(* bytes are read back with readMessage into a zero envelope.              *)
(***************************************************************************)
\* strings: "", "a", and one that is not valid UTF-8
CodecStrings == {<<>>, <<97>>, <<255>>}
CodecMaps ==
    {NilMap, Map(<<>>), Map(<<107>> :> <<118>>),
     Map((<<107>> :> <<118>>) @@ (<<97>> :> <<>>))}
\* nil, and every body of the bytes 0 and 255 up to the longest
CodecBodies ==
    {NilBytes} \cup UNION {{Bytes(b) : b \in [1..n -> {0, 255}]} : n \in 0..MaxBodyLen}
CodecStatus == {0, 200, 0 - 1}
CodecEnvelopes ==
    {ProxyRequest(m, <<47>>, h, b) : m \in CodecStrings, h \in CodecMaps, b \in CodecBodies}
    \cup {ProxyResponse(st, h, b, e) :
             st \in CodecStatus, h \in CodecMaps, b \in CodecBodies, e \in CodecStrings}
\* the bytes that follow the frame on the stream
CodecTrailers == {<<>>, <<0, 0>>}

\* the zero value of the envelope's type
ZeroOf(v) == IF "Status" \in DOMAIN v THEN ZeroResponse ELSE ZeroRequest

CodecInit ==
    /\ ExInit
    /\ sigSt = PureIdle
    /\ \E v \in CodecEnvelopes, t \in CodecTrailers :
          codecSt = [stage |-> "input", v |-> v, trailer |-> t, wire |-> <<>>,
                     werr |-> FALSE, rerr |-> ErrNone, dst |-> ZeroOf(v), n |-> 0]

\* writeMessage(w, v)
CodecWrite ==
    /\ codecSt.stage = "input"
    /\ LET w == writeMessage(Writer(<<>>, 0 - 1), codecSt.v)
       IN  codecSt' = [codecSt EXCEPT !.stage = "written", !.wire = w.w.out,
                                      !.werr = w.err]
    /\ UNCHANGED <<exVars, sigSt>>

\* readMessage(r, &dst) on the bytes written and what follows them
CodecRead ==
    /\ codecSt.stage = "written"
    /\ LET m == readMessage(Reader(codecSt.wire \o codecSt.trailer, TRUE), codecSt.dst)
       IN  codecSt' = [codecSt EXCEPT !.stage = "read", !.rerr = m.err, !.dst = m.dst,
                                      !.n = m.n]
    /\ UNCHANGED <<exVars, sigSt>>

CodecNext == CodecWrite \/ CodecRead

CodecSpec == CodecInit /\ [][CodecNext]_vars

(***************************************************************************)
(* The length prefix alone: a payload is given by its length only, which   *)
(* is written as len(b) in writeMessage and read back in readMessage.      *)
(* Lengths are numbers of five base-256 digits, the most significant       *)
(* first, so that len(b) can exceed what a uint32 holds.                   *)
(***************************************************************************)
SizeDigits == {0, 1, 255}
\* len(b): json.Marshal gives at least one byte
Sizes == [1..5 -> SizeDigits] \ {<<0, 0, 0, 0, 0>>}

\* binary.BigEndian.PutUint32(lenbuf[:], uint32(len(b))): the conversion
\* keeps the low 32 bits of len(b)
LenBuf(size) == SubSeq(size, 2, 5)

\* the number of payload bytes readMessage reads after the prefix:
\* make([]byte, l) with l the uint32 read from lenbuf
PayloadRead(lenbuf) == <<0>> \o lenbuf

SizeInit ==
    /\ ExInit
    /\ sigSt = PureIdle
    /\ \E n \in Sizes :
          codecSt = [stage |-> "input", size |-> n, lenbuf |-> <<>>, rerr |-> ErrNone,
                     taken |-> <<0, 0, 0, 0, 0>>]

\* writeMessage writes the prefix and the len(b) bytes of the payload
SizeWrite ==
    /\ codecSt.stage = "input"
    /\ codecSt' = [codecSt EXCEPT !.stage = "written", !.lenbuf = LenBuf(codecSt.size)]
    /\ UNCHANGED <<exVars, sigSt>>

\* readMessage reads the prefix, then as many bytes as it says
SizeRead ==
    /\ codecSt.stage = "written"
    /\ IF codecSt.lenbuf = <<0, 0, 0, 0>>
       THEN codecSt' = [codecSt EXCEPT !.stage = "read", !.rerr = ErrZeroLength]
       ELSE codecSt' = [codecSt EXCEPT !.stage = "read",
                                       !.taken = PayloadRead(codecSt.lenbuf)]
    /\ UNCHANGED <<exVars, sigSt>>

SizeNext == SizeWrite \/ SizeRead

FrameSizeSpec == SizeInit /\ [][SizeNext]_vars

(***************************************************************************)
(* The identity alone: the DID of a key is derived and decoded again, as   *)
(* TestEd25519PubKeyToDID does, for two keys at a time.                    *)
(***************************************************************************)
\* ed25519.PublicKeySize
KeyLen == 32

\* the digit of a base58btc character, -1 for any other character
B58Val(c) ==
    IF \E i \in 0..57 : B58Char(i) = c
    THEN CHOOSE i \in 0..57 : B58Char(i) = c
    ELSE 0 - 1

RECURSIVE MulAdd58(_, _)
\* 58 times a number plus carry; the bytes are least significant first
MulAdd58(b, carry) ==
    IF b = <<>>
    THEN IF carry = 0 THEN <<>> ELSE <<carry % 256>> \o MulAdd58(<<>>, carry \div 256)
    ELSE LET n == b[1] * 58 + carry
         IN  <<n % 256>> \o MulAdd58(Tail(b), n \div 256)

RECURSIVE B58Number(_, _)
\* the number of the base58 digits s added to acc, least significant first
B58Number(s, acc) ==
    IF s = <<>> THEN acc ELSE B58Number(Tail(s), MulAdd58(acc, B58Val(s[1])))

Reverse(s) == [i \in 1..Len(s) |-> s[Len(s) + 1 - i]]

\* base58btc decoding: a zero byte for every leading "1", then the number
Base58Decode(s) ==
    LET zeros == LeadingZeros([i \in 1..Len(s) |-> IF s[i] = 49 THEN 0 ELSE 1])
    IN  [i \in 1..zeros |-> 0] \o Reverse(B58Number(SubSeq(s, zeros + 1, Len(s)), <<>>))

\* multibase.Decode: the encoding named by the first character and the data
MultibaseDecode(s) ==
    IF s = <<>> \/ s[1] # 122 \/ \E i \in 2..Len(s) : B58Val(s[i]) < 0
    THEN [enc |-> 0, data |-> <<>>, err |-> TRUE]
    ELSE [enc |-> s[1], data |-> Base58Decode(Tail(s)), err |-> FALSE]

\* public keys: all zero, all 255, keys that differ from all zero in the
\* first byte or the last, and keys of mixed bytes
DidKeys ==
    {[i \in 1..KeyLen |-> 0], [i \in 1..KeyLen |-> 255],
     [i \in 1..KeyLen |-> IF i = 1 THEN 1 ELSE 0],
     [i \in 1..KeyLen |-> IF i = KeyLen THEN 1 ELSE 0],
     [i \in 1..KeyLen |-> IF i = KeyLen THEN 58 ELSE 0],
     [i \in 1..KeyLen |-> i], [i \in 1..KeyLen |-> IF i = 1 THEN 255 ELSE 0],
     [i \in 1..KeyLen |-> IF i % 2 = 0 THEN 170 ELSE 85]}

DidInit ==
    /\ ExInit
    /\ codecSt = PureIdle
    /\ \E a \in DidKeys, b \in DidKeys :
          sigSt = [stage |-> "input", a |-> a, b |-> b, didA |-> <<>>, didB |-> <<>>,
                   decA |-> MultibaseDecode(<<>>), decB |-> MultibaseDecode(<<>>)]

\* Ed25519PubKeyToDID(pub) for both keys
DidDerive ==
    /\ sigSt.stage = "input"
    /\ sigSt' = [sigSt EXCEPT !.stage = "derived",
                              !.didA = Ed25519PubKeyToDID(sigSt.a),
                              !.didB = Ed25519PubKeyToDID(sigSt.b)]
    /\ UNCHANGED <<exVars, codecSt>>

\* multibase.Decode(strings.TrimPrefix(did, "did:key:"))
DidDecode ==
    /\ sigSt.stage = "derived"
    /\ sigSt' = [sigSt EXCEPT
                    !.stage = "decoded",
                    !.decA = MultibaseDecode(TrimPrefix(sigSt.didA, DidKeyPrefix)),
                    !.decB = MultibaseDecode(TrimPrefix(sigSt.didB, DidKeyPrefix))]
    /\ UNCHANGED <<exVars, codecSt>>

DidNext == DidDerive \/ DidDecode

DidSpec == DidInit /\ [][DidNext]_vars

(***************************************************************************)
(* Properties.                                                             *)
(***************************************************************************)
\* the steps request takes, in the order of the code
StepOrder == <<"connect", "newStream", "write", "flush", "read">>

\* request has returned from goroutine e's call after readMessage returned
ReadReturned(e) ==
    /\ pc[e] = "done"
    /\ steps[e] # <<>>
    /\ steps[e][Len(steps[e])].op = "read"

\* readMessage decoded a frame
DecodedCleanly(e) == ReadReturned(e) /\ steps[e][Len(steps[e])].ok

\* C1: a stream that was opened is closed when request returns, whichever
\* way it returns: every stream is closed unless the call that opened it
\* is still inside request.
C1_StreamClosedOnReturn ==
    \A s \in DOMAIN streams :
        streams[s].closed \/ \E e \in Exchanges : InFlight(e) /\ sid[e] = s

\* C1 witness: request has returned a flush error and its stream is closed
C1_Witness ==
    \E e \in Exchanges :
        /\ pc[e] = "done"
        /\ sid[e] # 0
        /\ ret[e].err.stage = "failed to flush"
        /\ streams[sid[e]].closed

\* C2: once the deadline of ctx has passed (or the caller has cancelled), a
\* call that is inside request leaves it, wherever it is blocked.
C2_DeadlineEndsExchange ==
    (InFlight(Caller) /\ expired[Caller]) ~> ~InFlight(Caller)

\* C3: when readMessage decoded the response, its Error alone decides the
\* result: not empty, request returns no response and an error with exactly
\* that message; empty, request returns the decoded response and no error.
C3_ErrorStringDecides ==
    \A e \in Exchanges :
        DecodedCleanly(e) =>
            /\ resp[e].Error # <<>> =>
                  ret[e].resp.nil /\ ret[e].err = NewErr(resp[e].Error)
            /\ resp[e].Error = <<>> =>
                  ret[e].resp = PtrResp(resp[e]) /\ ret[e].err = NilErr

\* C3 witness: the peer's response carried the error "no", and request
\* returned it as its error
C3_Witness ==
    \E e \in Exchanges :
        /\ DecodedCleanly(e)
        /\ resp[e].Error = <<110, 111>>
        /\ ret[e].err = NewErr(<<110, 111>>)
        /\ ret[e].resp.nil

\* what a verifier compares: the method in upper case, the path, the bytes
\* of the body, the nonce and the timestamp
Canonical(t) == <<ToUpper(t.method), t.path, t.body.v, t.nonce, t.ts>>

\* the fields that buildPayload joins with "\n" hold no "\n" themselves
NewlineFree(t) == LF \notin Range(t.method) \cup Range(t.path) \cup Range(t.nonce)

\* the tuples differ in a field
Differ(a, b) ==
    \/ a.method # b.method
    \/ a.path # b.path
    \/ a.body.v # b.body.v
    \/ a.nonce # b.nonce
    \/ a.ts # b.ts

ValidStrings(v) ==
    /\ IF "Status" \in DOMAIN v THEN CoerceUTF8(v.Error) = v.Error
       ELSE CoerceUTF8(v.Method) = v.Method /\ CoerceUTF8(v.Path) = v.Path
    /\ \A k \in DOMAIN v.Headers.v :
          CoerceUTF8(k) = k /\ CoerceUTF8(v.Headers.v[k]) = v.Headers.v[k]

\* the envelope with an empty body and empty headers made nil
Normal(v) ==
    [v EXCEPT !.Body = IF v.Body.v = <<>> THEN NilBytes ELSE v.Body,
              !.Headers = IF DOMAIN v.Headers.v = {} THEN NilMap ELSE v.Headers]

\* C5 as the claim states it: readMessage on the bytes writeMessage wrote
\* for an envelope succeeds, gives an envelope equal to the one written and
\* consumes exactly the frame.
C5_RoundTripExact ==
    codecSt.stage = "read" =>
        /\ ~codecSt.werr
        /\ codecSt.rerr = ErrNone
        /\ codecSt.dst = codecSt.v
        /\ codecSt.n = Len(codecSt.wire)

\* C5: readMessage on the bytes writeMessage wrote succeeds and consumes
\* exactly the frame, whatever follows it; when the strings of the envelope
\* are valid UTF-8, the envelope decoded into a zero value is the one
\* written, with an empty body and empty headers read back as nil.
C5_RoundTripNormal ==
    codecSt.stage = "read" =>
        /\ ~codecSt.werr
        /\ codecSt.rerr = ErrNone
        /\ codecSt.n = Len(codecSt.wire)
        /\ codecSt.wire = Frame(codecSt.v)
        /\ ValidStrings(codecSt.v) => codecSt.dst = Normal(codecSt.v)

\* C5 witness: a response with a body and two headers was read back equal,
\* with bytes following the frame left unread
C5_Witness ==
    /\ codecSt.stage = "read"
    /\ "Status" \in DOMAIN codecSt.v
    /\ codecSt.v.Body.v # <<>>
    /\ Cardinality(DOMAIN codecSt.v.Headers.v) = 2
    /\ codecSt.trailer # <<>>
    /\ codecSt.dst = codecSt.v
    /\ codecSt.n = Len(codecSt.wire)

\* the bytes the peer sent on the stream of goroutine e
Received(e) == streams[sid[e]].inb

\* the bytes begin with a length prefix of 0
ZeroPrefix(b) == Len(b) >= 4 /\ Uint32(b) = 0

\* the bytes end before a frame is complete
Incomplete(b) == Len(b) < 4 \/ (Uint32(b) # 0 /\ Len(b) < 4 + Uint32(b))

\* C6: when the length prefix of the response is 0, readMessage fails with
\* the zero-length error, having read the four bytes of the prefix and no
\* more and left the destination as it was, and request returns that error
\* as a read error and no response.
C6_ZeroLengthRejected ==
    \A e \in Exchanges :
        ReadReturned(e) /\ ZeroPrefix(Received(e)) =>
            /\ ret[e].err = Wrapped("failed to read response", ErrZeroLength)
            /\ ret[e].resp.nil
            /\ resp[e] = ZeroResponse
            /\ streams[sid[e]].rd = 4

\* C6 witness: the peer replied with a prefix of 0 followed by "{}", and
\* request returned the zero-length error
C6_Witness ==
    \E e \in Exchanges :
        /\ ReadReturned(e)
        /\ Received(e) = <<0, 0, 0, 0, ObjOpen, ObjClose>>
        /\ ret[e].err.cause = ErrZeroLength
        /\ streams[sid[e]].rd = 4

\* C7: when the peer closes the stream before a whole frame has arrived,
\* readMessage does not wait: it returns io.EOF or io.ErrUnexpectedEOF, and
\* request returns it as a read error and no response.
C7_ShortReadFails ==
    \A e \in Exchanges :
        /\ pc[e] = "read" /\ streams[sid[e]].peerClosed =>
              CanReadMessage(StreamReader(streams[sid[e]]))
        /\ ReadReturned(e) /\ streams[sid[e]].peerClosed /\ Incomplete(Received(e)) =>
              /\ ret[e].err.kind = "wrapped"
              /\ ret[e].err.stage = "failed to read response"
              /\ ret[e].err.cause \in {ErrEOF, ErrUnexpectedEOF}
              /\ ret[e].resp.nil
              /\ resp[e] = ZeroResponse

\* C7 witness: the peer sent a prefix announcing a payload and closed the
\* stream without sending a byte of it; request returned a read error
C7_Witness ==
    \E e \in Exchanges :
        /\ ReadReturned(e)
        /\ streams[sid[e]].peerClosed
        /\ Len(Received(e)) = 4
        /\ Uint32(Received(e)) # 0
        /\ ret[e].err = Wrapped("failed to read response", ErrEOF)

\* C8: the steps an exchange has taken are the first steps of connect,
\* open stream, write, flush, read, in that order, and every step but the
\* last taken has succeeded; a stream has at most one frame written to it and
\* at most one read from it, and is not touched once it is closed.
C8_StepsInOrder ==
    /\ \A e \in Exchanges :
          /\ Len(steps[e]) <= Len(StepOrder)
          /\ \A i \in 1..Len(steps[e]) :
                /\ steps[e][i].op = StepOrder[i]
                /\ i < Len(steps[e]) => steps[e][i].ok
          /\ InFlight(e) => \A i \in 1..Len(steps[e]) : steps[e][i].ok
    /\ \A s \in DOMAIN streams :
          /\ streams[s].writes <= 1
          /\ streams[s].reads <= 1
          /\ ~streams[s].late

\* C8 witness: an exchange that took all five steps, each with success, on
\* the second stream of the client
C8_Witness ==
    \E e \in Exchanges :
        /\ pc[e] = "done"
        /\ Len(steps[e]) = 5
        /\ \A i \in 1..5 : steps[e][i].ok
        /\ sid[e] = 2
        /\ streams[2].writes = 1 /\ streams[2].reads = 1
        /\ streams[1].closed

\* what readMessage gives for the bytes the peer sent on stream s
ReplyOn(s) == readMessage(Reader(streams[s].inb, TRUE), ZeroResponse)

\* C9: with calls running at once on one Client, every call that has opened
\* a stream has one no other call has; the stream carries bytes of that call's
\* request and no others, stays open while the call is in request, and the result
\* of the call is the one of the response the peer sent on that stream.
C9_ExchangesIsolated ==
    \A e \in Exchanges :
        sid[e] # 0 =>
            /\ streams[sid[e]].owner = callId[e]
            /\ \A f \in Exchanges \ {e} : sid[f] # sid[e]
            /\ InFlight(e) => ~streams[sid[e]].closed
            /\ IsPrefix(streams[sid[e]].out, Frame(req[e]))
            /\ req[e] # ZeroRequest =>
                  /\ req[e].Method = args[e].method
                  /\ req[e].Path = args[e].path
                  /\ \E i \in DOMAIN signed :
                        /\ signed[i].nonce = args[e].nonce
                        /\ req[e].Headers.v[Authorization] =
                              createCanonicalHeader(client, args[e].method, args[e].path,
                                                    args[e].body, args[e].nonce,
                                                    args[e].ts).authHeader
            /\ DecodedCleanly(e) =>
                  /\ resp[e] = ReplyOn(sid[e]).dst
                  /\ ret[e] = Outcome(resp[e])

\* C9 witness: two calls ran at once, the one made first on the stream
\* opened second; the peer answered one with a response and the other with
\* an error, and each call returned what was sent on its own stream
C9_Witness ==
    /\ pc[1] = "done" /\ pc[2] = "done"
    /\ callId[1] = 1 /\ callId[2] = 2
    /\ sid[1] = 2 /\ sid[2] = 1
    /\ streams[2].inb = Frame(RespOK) /\ ret[1].resp = PtrResp(RespOK)
    /\ streams[1].inb = Frame(RespForbidden) /\ ret[2].err = NewErr(RespForbidden.Error)

C11_ClientImmutable ==
    /\ client = New(ClientKey)
    /\ client.privKey = ClientKey
    /\ client.p2pGatewayAddr = GatewayAddr
    /\ DID(client) = Ed25519PubKeyToDID(Public(ClientKey))
    /\ \A e \in Exchanges :
          req[e] # ZeroRequest =>
              IsPrefix(HdrDID \o Ed25519PubKeyToDID(Public(ClientKey)) \o HdrSig,
                       req[e].Headers.v[Authorization])

\* C11 witness: one call has failed and returned, and a call running at the
\* same time has built its envelope with the client's identity in the header
C11_Witness ==
    \E e \in Exchanges : \E f \in Exchanges \ {e} :
        /\ pc[e] = "done" /\ ret[e].err # NilErr
        /\ pc[f] = "read"
        /\ IsPrefix(HdrDID \o DID(client) \o HdrSig, req[f].Headers.v[Authorization])

\* the text that request puts before the cause when a step fails
StageOf(step) ==
    CASE step = "connect" -> "failed to connect to server"
      [] step = "newStream" -> "failed to open stream"
      [] step = "write" -> "failed to send request:"
      [] step = "flush" -> "failed to flush"
      [] step = "read" -> "failed to read response"

\* C12: an exchange attempts each of its steps at most once, and a step that
\* fails is the last one it takes: request has returned no response and an
\* error that names the stage of that step and wraps its cause.
C12_NoRetry ==
    \A e \in Exchanges :
        /\ \A i \in DOMAIN steps[e] : \A j \in DOMAIN steps[e] :
              i # j => steps[e][i].op # steps[e][j].op
        /\ \A i \in DOMAIN steps[e] :
              ~steps[e][i].ok =>
                  /\ i = Len(steps[e])
                  /\ pc[e] = "done"
                  /\ ret[e].resp.nil
                  /\ ret[e].err.kind = "wrapped"
                  /\ ret[e].err.stage = StageOf(steps[e][i].op)
                  /\ ret[e].err.cause # ""

\* C12 witness: the write of the request failed after connect and stream
\* open succeeded, and request returned the send error without a flush or a
\* read
C12_Witness ==
    \E e \in Exchanges :
        /\ pc[e] = "done"
        /\ Len(steps[e]) = 3
        /\ steps[e][1].ok /\ steps[e][2].ok /\ ~steps[e][3].ok
        /\ ret[e].err = Wrapped("failed to send request:", "write failed")
        /\ streams[sid[e]].reads = 0

\* the call of goroutine e has opened no stream, signed no header and
\* written no byte
Untouched(e) ==
    /\ sid[e] = 0
    /\ \A s \in DOMAIN streams : streams[s].owner # callId[e]
    /\ \A i \in DOMAIN signed : signed[i].call # callId[e]
    /\ req[e] = ZeroRequest
    /\ bw[e] = <<>>
    /\ resp[e] = ZeroResponse

\* the step in which the connect or the stream open of goroutine e fails
FailsBeforeSend(e) == pc[e] \in {"connect", "newStream"} /\ pc'[e] = "done"

\* C13: when connect or the stream open fails, the call has opened no
\* stream, signed no header and written or read no byte, and request has
\* returned the error of that stage and no response; the failing step leaves
\* every stream and the signatures made so far as they were.
C13_FailureBeforeSend ==
    /\ [](\A e \in Exchanges :
            /\ Len(steps[e]) >= 1 /\ ~steps[e][1].ok =>
                  /\ pc[e] = "done" /\ Len(steps[e]) = 1 /\ Untouched(e)
                  /\ ret[e].resp.nil
                  /\ ret[e].err.kind = "wrapped"
                  /\ ret[e].err.stage = "failed to connect to server"
            /\ Len(steps[e]) >= 2 /\ ~steps[e][2].ok =>
                  /\ pc[e] = "done" /\ Len(steps[e]) = 2 /\ Untouched(e)
                  /\ ret[e].resp.nil
                  /\ ret[e].err.kind = "wrapped"
                  /\ ret[e].err.stage = "failed to open stream")
    /\ [][\A e \in Exchanges :
            FailsBeforeSend(e) =>
                streams' = streams /\ signed' = signed /\ bw' = bw /\ req' = req]_vars

\* C13 witness: the second call of the client failed to open its stream
\* after the first call had used one; the client still has the one stream
C13_Witness ==
    \E e \in Exchanges :
        /\ pc[e] = "done"
        /\ callId[e] = 2
        /\ Len(steps[e]) = 2 /\ ~steps[e][2].ok
        /\ ret[e].err.stage = "failed to open stream"
        /\ Len(streams) = 1
        /\ Len(signed) = 1

\* C14: request goes on to read the response only when the stream has taken
\* the whole frame of the request, prefix and payload; when the write or the
\* flush fails, with part of the frame on the stream or none, request returns
\* the error of the send or of the flush and no response, has read nothing,
\* and the stream is closed.
C14_SendWholeOrFail ==
    \A e \in Exchanges :
        /\ Len(steps[e]) >= 4 /\ steps[e][4].ok =>
              streams[sid[e]].out = Frame(req[e])
        /\ pc[e] = "read" => streams[sid[e]].out = Frame(req[e]) /\ bw[e] = <<>>
        /\ \A i \in {3, 4} :
              Len(steps[e]) >= i /\ ~steps[e][i].ok =>
                  /\ pc[e] = "done" /\ Len(steps[e]) = i
                  /\ ret[e].resp.nil
                  /\ ret[e].err = Wrapped(StageOf(StepOrder[i]), "write failed")
                  /\ resp[e] = ZeroResponse
                  /\ streams[sid[e]].reads = 0
                  /\ streams[sid[e]].closed
                  /\ IsPrefix(streams[sid[e]].out, Frame(req[e]))
                  /\ Len(streams[sid[e]].out) < Len(Frame(req[e]))

\* C14 witness: part of the frame reached the stream, the flush of the rest
\* failed, and request returned the flush error with the stream closed
C14_Witness ==
    \E e \in Exchanges :
        /\ pc[e] = "done"
        /\ Len(steps[e]) = 4 /\ ~steps[e][4].ok
        /\ Len(streams[sid[e]].out) > 4
        /\ Len(streams[sid[e]].out) < Len(Frame(req[e]))
        /\ ret[e].err = Wrapped("failed to flush", "write failed")
        /\ streams[sid[e]].closed

\* the place of the first c in s, 0 when there is none
IndexOf(s, c) ==
    IF c \in Range(s)
    THEN CHOOSE i \in 1..Len(s) : s[i] = c /\ \A j \in 1..(i - 1) : s[j] # c
    ELSE 0

\* a receiver's reading of the Authorization header: "DID ", the identity up
\* to the first ";", then "sig=", "ts=" and "nonce=" fields parted by ";",
\* the nonce being all that follows
ParseAuth(h) ==
    LET a == From(h, Len(HdrDID) + 1)
        i1 == IndexOf(a, 59)
        b == From(a, i1 + 1)
        i2 == IndexOf(b, 59)
        c == From(b, i2 + 1)
        i3 == IndexOf(c, 59)
        d == From(c, i3 + 1)
    IN  [ok |-> /\ IsPrefix(HdrDID, h)
                /\ i1 > 0 /\ i2 > 0 /\ i3 > 0
                /\ IsPrefix(Tail(HdrSig), b)
                /\ IsPrefix(Tail(HdrTs), c)
                /\ IsPrefix(Tail(HdrNonce), d),
         did |-> SubSeq(a, 1, i1 - 1),
         sig |-> SubSeq(b, Len(HdrSig), i2 - 1),
         ts |-> SubSeq(c, Len(HdrTs), i3 - 1),
         nonce |-> From(d, Len(HdrNonce))]

C16_PrefixIsLength ==
    /\ codecSt.stage \in {"written", "read"} =>
          PayloadRead(codecSt.lenbuf) = codecSt.size
    /\ codecSt.stage = "read" =>
          codecSt.rerr = ErrNone /\ codecSt.taken = codecSt.size

\* C17: the DID of a 32-byte key begins with "did:key:"; what follows
\* decodes as base58btc multibase to the bytes 0xED 0x01 and then the 32
\* bytes of the key; deriving it again gives the same string, and two keys
\* have the same DID only when they are the same key.
C17_DIDRoundTrip ==
    sigSt.stage = "decoded" =>
        /\ IsPrefix(DidKeyPrefix, sigSt.didA)
        /\ sigSt.decA = [enc |-> 122, data |-> <<237, 1>> \o sigSt.a, err |-> FALSE]
        /\ sigSt.decB = [enc |-> 122, data |-> <<237, 1>> \o sigSt.b, err |-> FALSE]
        /\ Len(sigSt.decA.data) = 2 + KeyLen
        /\ Ed25519PubKeyToDID(sigSt.a) = sigSt.didA
        /\ (sigSt.didA = sigSt.didB) <=> (sigSt.a = sigSt.b)

\* C17 witness: two different keys were derived and decoded, one of them
\* the key of 32 zero bytes, and their DIDs differ
C17_Witness ==
    /\ sigSt.stage = "decoded"
    /\ sigSt.a = [i \in 1..KeyLen |-> 0]
    /\ sigSt.b # sigSt.a
    /\ sigSt.didA # sigSt.didB
    /\ SubSeq(sigSt.decA.data, 1, 2) = <<237, 1>>
    /\ SubSeq(sigSt.decA.data, 3, 34) = sigSt.a

\* the payload that was signed: ed25519.Sign has put it after the key
SignedPayload == From(sigSt.sig, Len(Public(client.privKey)) + 1)

\* 0-9, a-f
LowerHex == (48..57) \cup (97..102)

\* how often c occurs in s
Count(s, c) == Cardinality({i \in DOMAIN s : s[i] = c})

\* C18: the payload signed for a tuple is the method in upper case, a
\* newline, the path, a newline, the digest of the body in lower-case
\* hexadecimal (of its full width for an empty or nil body too), a newline,
\* the nonce, a newline and the timestamp in decimal, with nothing after it;
\* building it again gives the same bytes.
C18_PayloadFormat ==
    sigSt.stage \in {"signed", "verified"} =>
        LET t == sigSt.a
            digest == Sha256Hex(t.body)
        IN  /\ SignedPayload = ToUpper(t.method) \o <<LF>> \o t.path \o <<LF>> \o digest
                               \o <<LF>> \o t.nonce \o <<LF>> \o Dec(t.ts)
            /\ SignedPayload = buildPayload(t.method, t.path, t.body, t.nonce, t.ts)
            /\ Range(digest) \subseteq LowerHex
            /\ Len(digest) = Len(Sha256Hex(NilBytes))
            /\ SignedPayload[Len(SignedPayload)] \in 48..57
            /\ NewlineFree(t) => Count(SignedPayload, LF) = 4
            /\ \A i \in 1..Len(t.method) : SignedPayload[i] \notin 97..122

\* C18 witness: the method "get" with an empty body was signed as "GET",
\* and the payload has its four newlines and its digest
C18_Witness ==
    /\ sigSt.stage = "signed"
    /\ sigSt.a.method = MethodLower
    /\ sigSt.a.body = Bytes(<<>>)
    /\ sigSt.a.ts > 0
    /\ SubSeq(SignedPayload, 1, 4) = GET \o <<LF>>
    /\ Count(SignedPayload, LF) = 4

\* the wrappers, which read resp.Body after c.request
Wrappers == {"Plans", "ListServices", "GetService", "CreateServices", "ServiceAction"}

\* the wrapper of goroutine e goes past its test of err and reads resp.Body
ReadsBody(e) == pc[e] = "done" /\ op[e] \in Wrappers /\ ret[e].err = NilErr

\* C19: what request has returned is a response and no error, or an error
\* and no response, never both and never neither; a wrapper that goes on to
\* read resp.Body has a response.
C19_ResponseXorError ==
    \A e \in Exchanges :
        /\ pc[e] = "done" =>
              /\ ret[e].resp.nil <=> ret[e].err # NilErr
              /\ ~ret[e].resp.nil => ret[e].resp = PtrResp(resp[e])
              /\ ret[e].err # NilErr => ret[e].err.kind \in {"wrapped", "new"}
        /\ ReadsBody(e) => ~ret[e].resp.nil

\* C19 witness: request returned a response with a body and no error to
\* ListServices, which reads the body
C19_Witness ==
    \E e \in Exchanges :
        /\ ReadsBody(e)
        /\ op[e] = "ListServices"
        /\ ~ret[e].resp.nil
        /\ ret[e].resp.v.Body.v # <<>>

\* a CreateServiceRequest with its required fields
ValidCreate(r) ==
    r.PlanID # 0 /\ r.OS # <<>> /\ r.Amount > 0 /\ r.SSHPublicKey # <<>>

\* the call of goroutine e has entered request
Entered(e) == InFlight(e) \/ steps[e] # <<>>

\* the first letters of the messages of the wrappers' validation
ValidationErrors == {<<112, 108>>, <<111, 115>>, <<110, 117>>, <<115, 115>>, <<97, 99>>}

\* C20: CreateServices enters request only with a request that has a plan
\* id, an OS, an amount above zero and an SSH public key, and ServiceAction
\* only with an action that is not empty; a call that returns without
\* entering request returns a validation error and has attempted no connect,
\* opened no stream, signed no header and written no byte.
C20_ValidatedBeforeNetwork ==
    \A e \in Exchanges :
        /\ op[e] = "CreateServices" /\ Entered(e) =>
              \E r \in CreateRequests :
                  ValidCreate(r) /\ args[e].body = Bytes(MarshalCreate(r))
        /\ op[e] = "ServiceAction" /\ Entered(e) =>
              \E a \in Actions : a # <<>> /\ args[e].body = Bytes(MarshalAction(a))
        /\ pc[e] = "done" /\ ~Entered(e) =>
              /\ op[e] \in {"CreateServices", "ServiceAction"}
              /\ ret[e].resp.nil
              /\ ret[e].err.kind = "new"
              /\ ret[e].err.msg \in ValidationErrors
              /\ op[e] = "ServiceAction" <=> ret[e].err.msg = <<97, 99>>
              /\ Untouched(e)
              /\ args[e] = NoArgs
              /\ ~expired[e]

\* C20 witness: after an exchange that used a stream, CreateServices was
\* called with an amount of 0 and returned "number of instances must be
\* greater than zero"; the client still has the one stream and signature
C20_Witness ==
    \E e \in Exchanges :
        /\ pc[e] = "done"
        /\ op[e] = "CreateServices"
        /\ callId[e] = 2
        /\ steps[e] = <<>>
        /\ ret[e].err = NewErr(<<110, 117>>)
        /\ Len(streams) = 1 /\ Len(signed) = 1

\* the value of the last member of ms with key k, "" when there is none
LastValue(ms, k) ==
    LET is == {i \in DOMAIN ms : ms[i].k = k}
    IN  IF is = {} THEN <<>>
        ELSE ms[CHOOSE i \in is : \A j \in is : j <= i].v

\* the exchange of goroutine e succeeded and the body the peer sent is a
\* JSON object that names no error and an action id
Acknowledged(e) ==
    /\ DecodedCleanly(e)
    /\ ret[e].err = NilErr
    /\ resp[e].Error = <<>>
    /\ ValidJSON(resp[e].Body.v)
    /\ LET ms == ParseMembers(Tail(resp[e].Body.v)).ms
       IN  LastValue(ms, KeyError) = <<>> /\ LastValue(ms, KeyActionID) # <<>>

\* C21: ServiceAction returns nil exactly when the exchange succeeded, the
\* body of the response decoded as an action response, that response names
\* no error and it names an action id; otherwise it returns an error, and
\* an error of request is returned as it is.
C21_SuccessMeansAcknowledged ==
    \A e \in Exchanges :
        pc[e] = "done" /\ op[e] = "ServiceAction" =>
            /\ ServiceActionReturn(ret[e]) = NilErr <=> Acknowledged(e)
            /\ ~Acknowledged(e) =>
                  ServiceActionReturn(ret[e]).kind \in {"wrapped", "new"}
            /\ ret[e].err # NilErr => ServiceActionReturn(ret[e]) = ret[e].err

\* C21 witness: the peer answered {"action_id":"x"} and ServiceAction
\* returned nil
C21_Witness ==
    \E e \in Exchanges :
        /\ pc[e] = "done"
        /\ op[e] = "ServiceAction"
        /\ resp[e].Body = Bytes(ActionAck)
        /\ streams[sid[e]].inb = Frame(RespAction(ActionAck))
        /\ ServiceActionReturn(ret[e]) = NilErr

=============================================================================
